---------------------------- MODULE Spec2Model ----------------------------
(***************************************************************************)
(* Model of the mount builtins of init (init/builtins.c): do_mount and     *)
(* do_mount_all; a behaviour is one command run by the command executor.   *)
(*                                                                         *)
(* C strings that the code inspects by prefix (args[1..3]) are sequences   *)
(* of one-character strings; the trailing tokens args[4..] are only ever   *)
(* compared whole (strcmp), so they are atomic strings.  A flags bitmask   *)
(* is the set of the MS_ bits that are set (bitwise OR is set union).      *)
(***************************************************************************)
EXTENDS Integers, Sequences, FiniteSets, TLC

(* ------------------------------ bounds --------------------------------- *)

\* largest partition index a label lookup returns
MaxIdx == 1
\* number of loop device nodes /dev/block/loop0 .. loop<NumLoop-1>
NumLoop == 2
\* largest number of trailing tokens args[4..] of a mount command
MaxTail == 2

(* ------------------------------ strings -------------------------------- *)

Min(a, b) == IF a < b THEN a ELSE b

\* the first k characters of s (all of s when it is shorter)
Take(s, k) == SubSeq(s, 1, Min(k, Len(s)))

\* strncmp(a, b, k) == 0: equal up to k characters or up to the terminator
strncmp0(a, b, k) == Take(a, k) = Take(b, k)

\* the characters of s from offset k on (the C expression s + k)
Skip(s, k) == SubSeq(s, k + 1, Len(s))

Digit == <<"0", "1", "2", "3", "4", "5", "6", "7", "8", "9">>

\* the %d conversion of a non-negative integer
RECURSIVE Dec(_)
Dec(i) == IF i < 10 THEN <<Digit[i + 1]>>
          ELSE Dec(i \div 10) \o <<Digit[(i % 10) + 1]>>

S_mtd == <<"m", "t", "d", "@">>
S_loop == <<"l", "o", "o", "p", "@">>
S_inand == <<"i", "n", "a", "n", "d", "@">>
S_ubifs == <<"u", "b", "i", "f", "s">>
S_ext4 == <<"e", "x", "t", "4">>
S_cache == <<"/", "c", "a", "c", "h", "e">>
DATA_MNT_POINT == <<"/", "d", "a", "t", "a">>
S_devblock == <<"/", "d", "e", "v", "/", "b", "l", "o", "c", "k", "/">>

\* MtdPath with the character device directory in place of the block one
MtdPath_chardev(i) == <<"/", "d", "e", "v", "/", "m", "t", "d", "/", "m", "t", "d">> \o Dec(i)

\* sprintf(tmp, "/dev/block/mtdblock%d", n)
MtdPath(i) == S_devblock \o <<"m", "t", "d", "b", "l", "o", "c", "k">> \o Dec(i)
\* sprintf(tmp, "/dev/block/loop%d", n)
LoopPath(i) == S_devblock \o <<"l", "o", "o", "p">> \o Dec(i)
\* sprintf(tmp, "/dev/block/cardblkinand%d", n)
InandPath(i) == S_devblock
                \o <<"c", "a", "r", "d", "b", "l", "k", "i", "n", "a", "n", "d">>
                \o Dec(i)

(* --------------------------- sample inputs ----------------------------- *)

FsTypes == { S_ext4,
             S_ext4 \o <<"d", "e", "v">>,
             S_ubifs,
             <<"v", "f", "a", "t">> }

RawSource == <<"/", "d", "e", "v", "/", "x">>

Sources == { S_mtd \o <<"s">>,
             S_loop \o <<"/", "f">>,
             S_inand \o <<"d">>,
             RawSource }

Targets == { S_cache,
             S_cache \o <<"2">>,
             DATA_MNT_POINT,
             DATA_MNT_POINT \o <<"2">>,
             <<"/", "m", "n", "t">> }

\* a keyword with a bit, a keyword without, the wait directive, an unknown token
Tokens == {"ro", "noatime", "wait", "discard"}

RECURSIVE SeqsUpTo(_, _)
SeqsUpTo(S, k) == IF k = 0 THEN {<<>>}
                  ELSE LET shorter == SeqsUpTo(S, k - 1)
                       IN  shorter \cup
                           {Append(s, x) : s \in {t \in shorter : Len(t) = k - 1},
                                           x \in S}

Tails == SeqsUpTo(Tokens, MaxTail)

(* ----------------------------- flag table ------------------------------ *)

mount_flags ==
  << [name |-> "noatime",    flag |-> {"MS_NOATIME"}],
     [name |-> "noexec",     flag |-> {"MS_NOEXEC"}],
     [name |-> "nosuid",     flag |-> {"MS_NOSUID"}],
     [name |-> "nodev",      flag |-> {"MS_NODEV"}],
     [name |-> "nodiratime", flag |-> {"MS_NODIRATIME"}],
     [name |-> "ro",         flag |-> {"MS_RDONLY"}],
     [name |-> "rw",         flag |-> {}],
     [name |-> "remount",    flag |-> {"MS_REMOUNT"}],
     [name |-> "bind",       flag |-> {"MS_BIND"}],
     [name |-> "rec",        flag |-> {"MS_REC"}],
     [name |-> "unbindable", flag |-> {"MS_UNBINDABLE"}],
     [name |-> "private",    flag |-> {"MS_PRIVATE"}],
     [name |-> "slave",      flag |-> {"MS_SLAVE"}],
     [name |-> "shared",     flag |-> {"MS_SHARED"}],
     [name |-> "defaults",   flag |-> {}] >>

NULL == "(null)"

\* the inner for loop: index of the first table entry named tok, or
\* Len(mount_flags) + 1 (the terminating { 0, 0 } entry) when there is none
RECURSIVE FlagIndex(_, _)
FlagIndex(tok, i) ==
  IF i > Len(mount_flags) THEN i
  ELSE IF tok = mount_flags[i].name THEN i
  ELSE FlagIndex(tok, i + 1)

\* ParseFrom without the test n + 1 == nargs: any unknown token is the options
RECURSIVE ParseFrom_anyOption(_, _, _, _)
ParseFrom_anyOption(a, na, k, st) ==
  IF k >= na THEN st
  ELSE LET i == FlagIndex(a[k], 1)
           st2 == IF i <= Len(mount_flags)
                    THEN [st EXCEPT !.flags = @ \cup mount_flags[i].flag]
                  ELSE IF a[k] = "wait"
                    THEN [st EXCEPT !.wait = 1]
                  ELSE [st EXCEPT !.options = a[k]]
       IN  ParseFrom_anyOption(a, na, k + 1, st2)

\* the outer for loop from C index k (args[k] is a[k]) to nargs - 1, on the
\* accumulated st = [flags, options, wait]
RECURSIVE ParseFrom(_, _, _, _)
ParseFrom(a, na, k, st) ==
  IF k >= na THEN st
  ELSE LET i == FlagIndex(a[k], 1)
           st2 == IF i <= Len(mount_flags)
                    THEN [st EXCEPT !.flags = @ \cup mount_flags[i].flag]
                  ELSE IF a[k] = "wait"
                    THEN [st EXCEPT !.wait = 1]
                  ELSE IF k + 1 = na
                    THEN [st EXCEPT !.options = a[k]]
                  ELSE st
       IN  ParseFrom(a, na, k + 1, st2)

ParseArgs(a, na) ==
  ParseFrom(a, na, 4, [flags |-> {}, options |-> NULL, wait |-> 0])

(* ------------------------------- state --------------------------------- *)

VARIABLES
  cmd,           \* the command the executor runs: "do_mount", "do_mount_all"
  pc,            \* position of the executor inside the running command
  nargs, args,   \* the command's arguments, args[1] .. args[nargs - 1]
  system, source, target, flags, options, wait,   \* do_mount locals
  tmp, n, mount_result,                           \* do_mount locals
  fds,           \* descriptors do_mount holds open: "fd", "loop"
  loopdev,       \* kernel: loopdev[i] is TRUE when loop<i> is configured
  bound,         \* the loop slot this invocation bound, or -1
  calls,         \* the external calls of the running command, in order
  ret,           \* value the last command returned
  props,         \* the property store
  action_queue,  \* the trigger queue
  peer,          \* a second do_mount invocation scanning the loop slots
  child,         \* the forked child of do_mount_all
  status         \* wait status of the child

vars == << cmd, pc, nargs, args, system, source, target, flags, options,
           wait, tmp, n, mount_result, fds, loopdev, bound, calls, ret,
           props, action_queue, child, status, peer >>

NONE == <<>>

mountLocals == << system, source, target, flags, options, wait, tmp, n,
                  mount_result, fds, bound >>
stores == << props, action_queue >>
forkState == << child, status >>

Init ==
  /\ cmd = "none"
  /\ pc = "idle"
  /\ nargs = 0
  /\ args = NONE
  /\ system = NONE /\ source = NONE /\ target = NONE
  /\ flags = {} /\ options = NULL /\ wait = 0
  /\ tmp = NONE /\ n = 0 /\ mount_result = 0
  /\ fds = {}
  /\ loopdev \in [0 .. NumLoop - 1 -> BOOLEAN]
  /\ bound = -1
  /\ calls = <<>>
  /\ ret = 0
  /\ props = [k \in {"ro.init.mountdatafail", "ro.crypto.state", "vold.decrypt"}
                |-> NULL]
  /\ action_queue = <<>>
  /\ child = "none"
  /\ status = [exited |-> FALSE, code |-> 0]
  /\ peer = [pc |-> "idle", n |-> 0, loop |-> FALSE, bound |-> -1,
             calls |-> <<>>, ret |-> 0, raced |-> {}]


(* ------------------------- external collaborators ---------------------- *)

\* what mount(2), make_ext4fs, wait_for_file and open(2) can report
SysResults == {0, -1}

\* what a label lookup can report: -1 (no such label) or a partition index
LookupResults == -1 .. MaxIdx

\* what fs_mgr_mount_all returns in the child, handed to exit()
ChildRets == {-1, 0, 1, 2}

\* the actions known to the init parser, each under its trigger name
action_list ==
  << [name |-> "a1", trigger |-> "nonencrypted"],
     [name |-> "a2", trigger |-> "boot"],
     [name |-> "a3", trigger |-> "nonencrypted"] >>

\* property_set(key, val) on the property store
property_set(store, key, val) == [store EXCEPT ![key] = val]

\* action_for_each_trigger(trigger, action_add_queue_tail) on the queue
RECURSIVE action_for_each_trigger(_, _, _)
action_for_each_trigger(trigger, queue, i) ==
  IF i > Len(action_list) THEN queue
  ELSE action_for_each_trigger(
         trigger,
         IF action_list[i].trigger = trigger
           THEN Append(queue, action_list[i].name) ELSE queue,
         i + 1)

(* ---------------------------- call records ----------------------------- *)

MountCall(dev, res) ==
  [op |-> "mount", dev |-> dev, target |-> target, fs |-> system,
   flags |-> flags, options |-> options, res |-> res]

FormatCall(dev, res) ==
  [op |-> "make_ext4fs", dev |-> dev, target |-> target, res |-> res]

WaitCall(path, res) == [op |-> "wait_for_file", dev |-> path, res |-> res]

PropCall(key, val) == [op |-> "property_set", key |-> key, val |-> val]

TriggerCall(trigger) == [op |-> "action_for_each_trigger", trigger |-> trigger]

\* mtd_name_to_number(label) or inand_name_to_number(label) and its result
LookupCall(fn, label, res) == [op |-> fn, label |-> label, res |-> res]

\* ioctl(loop, req, ..) on the open slot /dev/block/loop<slot>
IoctlCall(req, slot, res) ==
  [op |-> "ioctl", req |-> req, slot |-> slot, res |-> res]

Return(v) == pc' = "done" /\ ret' = v

(* ------------------------------ do_mount ------------------------------- *)

\* the branch of the if / else-if chain that a request takes
Branch(fs, src) ==
  IF strncmp0(src, S_mtd, 4) THEN "mtd"
  ELSE IF strncmp0(fs, S_ubifs, 5) THEN "ubifs"
  ELSE IF strncmp0(src, S_loop, 5) THEN "loop"
  ELSE "other"

\* the executor calls do_mount: the flag loop, the three locals, the branch
do_mount ==
  /\ pc = "idle"
  /\ cmd' = "do_mount"
  /\ \E fs \in FsTypes, src \in Sources, tgt \in Targets, tail \in Tails :
       LET a == <<fs, src, tgt>> \o tail
           na == 4 + Len(tail)
           p == ParseArgs(a, na)
       IN  /\ args' = a
           /\ nargs' = na
           /\ flags' = p.flags
           /\ options' = p.options
           /\ wait' = p.wait
           /\ system' = a[1]
           /\ source' = a[2]
           /\ target' = a[3]
           /\ pc' = Branch(a[1], a[2])
  /\ tmp' = NONE /\ n' = 0 /\ mount_result' = 0
  /\ fds' = {} /\ bound' = -1
  /\ calls' = <<>>
  /\ ret' = 0
  /\ UNCHANGED << loopdev, stores, forkState >>
  /\ UNCHANGED peer

\* source "mtd@<label>": the label lookup and the sprintf of the device path
mtd_lookup ==
  /\ pc = "mtd"
  /\ \E r \in LookupResults :
       /\ n' = r
       /\ calls' = Append(calls,
                          LookupCall("mtd_name_to_number", Skip(source, 4), r))
       /\ IF r < 0
            THEN Return(-1) /\ tmp' = tmp
            ELSE /\ tmp' = MtdPath(r)
                 /\ pc' = IF wait # 0 THEN "mtd_wait" ELSE "mtd_mount"
                 /\ ret' = ret
  /\ UNCHANGED << cmd, nargs, args, system, source, target, flags, options,
                  wait, mount_result, fds, loopdev, bound, stores, forkState >>
  /\ UNCHANGED peer

\* if (wait) wait_for_file(tmp, COMMAND_RETRY_TIMEOUT): the result is dropped
mtd_wait ==
  /\ pc = "mtd_wait"
  /\ \E r \in SysResults : calls' = Append(calls, WaitCall(tmp, r))
  /\ pc' = "mtd_mount"
  /\ UNCHANGED << cmd, nargs, args, mountLocals, loopdev, ret, stores,
                  forkState >>
  /\ UNCHANGED peer

\* the single mount of the mtd branch
mtd_mount ==
  /\ pc = "mtd_mount"
  /\ \E r \in SysResults :
       /\ calls' = Append(calls, MountCall(tmp, r))
       /\ Return(IF r < 0 THEN -1 ELSE 0)
  /\ UNCHANGED << cmd, nargs, args, mountLocals, loopdev, stores, forkState >>
  /\ UNCHANGED peer

\* filesystem "ubifs...": the first mount, on the source as given
ubifs_mount ==
  /\ pc = "ubifs"
  /\ \E r \in SysResults :
       /\ calls' = Append(calls, MountCall(source, r))
       /\ IF r < 0 THEN pc' = "ubifs_remount" /\ ret' = ret
                   ELSE Return(0)
  /\ UNCHANGED << cmd, nargs, args, mountLocals, loopdev, stores, forkState >>
  /\ UNCHANGED peer

\* "ubifs mount failed and remount here": the second mount
ubifs_remount ==
  /\ pc = "ubifs_remount"
  /\ \E r \in SysResults :
       /\ calls' = Append(calls, MountCall(source, r))
       /\ Return(IF r < 0 THEN -1 ELSE 0)
  /\ UNCHANGED << cmd, nargs, args, mountLocals, loopdev, stores, forkState >>
  /\ UNCHANGED peer


(* ------------------------- do_mount: loop@ source ---------------------- *)

\* mode = (flags & MS_RDONLY) ? O_RDONLY : O_RDWR
OpenMode == IF "MS_RDONLY" \in flags THEN "O_RDONLY" ELSE "O_RDWR"

OpenCall(path, res) ==
  [op |-> "open", dev |-> path, mode |-> OpenMode, res |-> res]

\* fd = open(source + 5, mode)
loop_open_file ==
  /\ pc = "loop"
  /\ \E r \in SysResults :
       /\ calls' = Append(calls, OpenCall(Skip(source, 5), r))
       /\ IF r < 0
            THEN Return(-1) /\ UNCHANGED << fds, n >>
            ELSE /\ fds' = fds \cup {"fd"}
                 /\ n' = 0
                 /\ pc' = "loop_open_dev"
                 /\ ret' = ret
  /\ UNCHANGED << cmd, nargs, args, system, source, target, flags, options,
                  wait, tmp, mount_result, loopdev, bound, stores, forkState >>
  /\ UNCHANGED peer

\* loop_open_dev that starts the scan again when the open fails
loop_open_dev_wrap ==
  /\ pc = "loop_open_dev"
  /\ tmp' = LoopPath(n)
  /\ IF n < NumLoop
       THEN /\ calls' = Append(calls, OpenCall(LoopPath(n), 0))
            /\ fds' = fds \cup {"loop"}
            /\ pc' = "loop_get_status"
            /\ n' = n
       ELSE /\ calls' = Append(calls, OpenCall(LoopPath(n), -1))
            /\ pc' = "loop_open_dev"
            /\ n' = 0
            /\ fds' = fds
  /\ UNCHANGED << cmd, nargs, args, system, source, target, flags, options,
                  wait, mount_result, loopdev, bound, ret, stores, forkState >>
  /\ UNCHANGED peer

\* sprintf(tmp, "/dev/block/loop%d", n); loop = open(tmp, mode): the node
\* exists for n < NumLoop only
loop_open_dev ==
  /\ pc = "loop_open_dev"
  /\ tmp' = LoopPath(n)
  /\ IF n < NumLoop
       THEN /\ calls' = Append(calls, OpenCall(LoopPath(n), 0))
            /\ fds' = fds \cup {"loop"}
            /\ pc' = "loop_get_status"
            /\ ret' = ret
       ELSE /\ calls' = Append(calls, OpenCall(LoopPath(n), -1))
            /\ Return(-1)
            /\ fds' = fds
  /\ UNCHANGED << cmd, nargs, args, system, source, target, flags, options,
                  wait, n, mount_result, loopdev, bound, stores, forkState >>
  /\ UNCHANGED peer

\* loop_get_status without the test of the ioctl: every slot is taken as blank
loop_get_status_untested ==
  /\ pc = "loop_get_status"
  /\ calls' = Append(calls, IoctlCall("LOOP_GET_STATUS", n,
                                      IF ~loopdev[n] THEN -1 ELSE 0))
  /\ pc' = "loop_set_fd"
  /\ UNCHANGED << cmd, nargs, args, system, source, target, flags, options,
                  wait, tmp, n, fds, mount_result, loopdev, bound, ret, stores,
                  forkState >>
  /\ UNCHANGED peer

\* ioctl(loop, LOOP_GET_STATUS, &info) < 0 && errno == ENXIO, and the
\* close(loop) of a slot that is in use
loop_get_status ==
  /\ pc = "loop_get_status"
  /\ IF ~loopdev[n]
       THEN /\ calls' = Append(calls, IoctlCall("LOOP_GET_STATUS", n, -1))
            /\ pc' = "loop_set_fd"
            /\ UNCHANGED << fds, n >>
       ELSE /\ calls' = Append(calls, IoctlCall("LOOP_GET_STATUS", n, 0))
            /\ fds' = fds \ {"loop"}
            /\ n' = n + 1
            /\ pc' = "loop_open_dev"
  /\ UNCHANGED << cmd, nargs, args, system, source, target, flags, options,
                  wait, tmp, mount_result, loopdev, bound, ret, stores,
                  forkState >>
  /\ UNCHANGED peer

\* another process of the system configures the slot between the two ioctls
loop_race ==
  /\ pc = "loop_set_fd"
  /\ ~loopdev[n]
  /\ loopdev' = [loopdev EXCEPT ![n] = TRUE]
  /\ UNCHANGED << cmd, pc, nargs, args, mountLocals, calls, ret, stores,
                  forkState >>
  /\ UNCHANGED peer

\* loop_set_fd without the test of the ioctl: the slot is taken as bound
loop_set_fd_unchecked ==
  /\ pc = "loop_set_fd"
  /\ calls' = Append(calls, IoctlCall("LOOP_SET_FD", n,
                                      IF ~loopdev[n] THEN 0 ELSE -1))
  /\ loopdev' = [loopdev EXCEPT ![n] = TRUE]
  /\ bound' = n
  /\ fds' = fds \ {"fd"}
  /\ pc' = "loop_mount"
  /\ UNCHANGED << cmd, nargs, args, system, source, target, flags, options,
                  wait, tmp, n, mount_result, ret, stores, forkState >>
  /\ UNCHANGED peer

\* ioctl(loop, LOOP_SET_FD, fd) >= 0: close(fd); otherwise close(loop), n++
loop_set_fd ==
  /\ pc = "loop_set_fd"
  /\ IF ~loopdev[n]
       THEN /\ calls' = Append(calls, IoctlCall("LOOP_SET_FD", n, 0))
            /\ loopdev' = [loopdev EXCEPT ![n] = TRUE]
            /\ bound' = n
            /\ fds' = fds \ {"fd"}
            /\ pc' = "loop_mount"
            /\ n' = n
       ELSE /\ calls' = Append(calls, IoctlCall("LOOP_SET_FD", n, -1))
            /\ fds' = fds \ {"loop"}
            /\ n' = n + 1
            /\ pc' = "loop_open_dev"
            /\ UNCHANGED << loopdev, bound >>
  /\ UNCHANGED << cmd, nargs, args, system, source, target, flags, options,
                  wait, tmp, mount_result, ret, stores, forkState >>
  /\ UNCHANGED peer

\* loop_mount without the LOOP_CLR_FD of the failure path
loop_mount_noclear ==
  /\ pc = "loop_mount"
  /\ \E r \in SysResults :
       /\ calls' = Append(calls, MountCall(tmp, r))
       /\ Return(IF r < 0 THEN -1 ELSE 0)
  /\ fds' = fds \ {"loop"}
  /\ UNCHANGED << cmd, nargs, args, system, source, target, flags, options,
                  wait, tmp, n, mount_result, loopdev, bound, stores,
                  forkState >>
  /\ UNCHANGED peer

\* the mount of the loop branch, LOOP_CLR_FD on failure, close(loop)
loop_mount ==
  /\ pc = "loop_mount"
  /\ \E r \in SysResults :
       IF r < 0
         THEN /\ calls' = calls \o << MountCall(tmp, r),
                                      IoctlCall("LOOP_CLR_FD", n, 0) >>
              /\ loopdev' = [loopdev EXCEPT ![n] = FALSE]
              /\ bound' = -1
              /\ Return(-1)
         ELSE /\ calls' = Append(calls, MountCall(tmp, r))
              /\ UNCHANGED << loopdev, bound >>
              /\ Return(0)
  /\ fds' = fds \ {"loop"}
  /\ UNCHANGED << cmd, nargs, args, system, source, target, flags, options,
                  wait, tmp, n, mount_result, stores, forkState >>
  /\ UNCHANGED peer

(* ------------- do_mount: a second invocation on loop@ ------------------ *)

\* everything but the kernel's loop slots and the second invocation
firstInvocation == << cmd, pc, nargs, args, mountLocals, calls, ret, stores,
                      forkState >>

\* a do_mount request that takes the loop@ branch
do_mount_loop == do_mount /\ pc' = "loop"

\* the second invocation has opened its backing file and starts its scan
peer_do_mount ==
  /\ peer.pc = "idle"
  /\ peer' = [peer EXCEPT !.pc = "loop_open_dev", !.n = 0]
  /\ UNCHANGED << firstInvocation, loopdev >>

\* loop = open("/dev/block/loop<n>", mode) in the second invocation
peer_open_dev ==
  /\ peer.pc = "loop_open_dev"
  /\ peer' = IF peer.n < NumLoop
               THEN [peer EXCEPT !.loop = TRUE, !.pc = "loop_get_status"]
               ELSE [peer EXCEPT !.pc = "done", !.ret = -1]
  /\ UNCHANGED << firstInvocation, loopdev >>

\* ioctl(loop, LOOP_GET_STATUS, &info) in the second invocation; raced
\* remembers the slots it saw blank while the first invocation stood between
\* its own LOOP_GET_STATUS and LOOP_SET_FD on the same slot
peer_get_status ==
  /\ peer.pc = "loop_get_status"
  /\ peer' = IF ~loopdev[peer.n]
               THEN [peer EXCEPT
                       !.calls = Append(@, IoctlCall("LOOP_GET_STATUS",
                                                     peer.n, -1)),
                       !.raced = IF pc = "loop_set_fd" /\ n = peer.n
                                   THEN @ \cup {peer.n} ELSE @,
                       !.pc = "loop_set_fd"]
               ELSE [peer EXCEPT
                       !.calls = Append(@, IoctlCall("LOOP_GET_STATUS",
                                                     peer.n, 0)),
                       !.loop = FALSE,
                       !.n = @ + 1,
                       !.pc = "loop_open_dev"]
  /\ UNCHANGED << firstInvocation, loopdev >>

\* ioctl(loop, LOOP_SET_FD, fd) in the second invocation
peer_set_fd ==
  /\ peer.pc = "loop_set_fd"
  /\ IF ~loopdev[peer.n]
       THEN /\ loopdev' = [loopdev EXCEPT ![peer.n] = TRUE]
            /\ peer' = [peer EXCEPT
                          !.calls = Append(@, IoctlCall("LOOP_SET_FD",
                                                        peer.n, 0)),
                          !.bound = peer.n,
                          !.pc = "loop_mount"]
       ELSE /\ loopdev' = loopdev
            /\ peer' = [peer EXCEPT
                          !.calls = Append(@, IoctlCall("LOOP_SET_FD",
                                                        peer.n, -1)),
                          !.loop = FALSE,
                          !.n = @ + 1,
                          !.pc = "loop_open_dev"]
  /\ UNCHANGED firstInvocation

\* the mount of the second invocation, LOOP_CLR_FD on failure, close(loop)
peer_mount ==
  /\ peer.pc = "loop_mount"
  /\ \E r \in SysResults :
       IF r < 0
         THEN /\ loopdev' = [loopdev EXCEPT ![peer.n] = FALSE]
              /\ peer' = [peer EXCEPT
                            !.calls = Append(@, IoctlCall("LOOP_CLR_FD",
                                                          peer.n, 0)),
                            !.bound = -1,
                            !.loop = FALSE,
                            !.pc = "done",
                            !.ret = -1]
         ELSE /\ loopdev' = loopdev
              /\ peer' = [peer EXCEPT !.loop = FALSE, !.pc = "done",
                                      !.ret = 0]
  /\ UNCHANGED firstInvocation

(* --------------------- do_mount: every other source -------------------- *)

\* entry of the final else: if (wait) wait_for_file(source, ...), dropped
other_wait ==
  /\ pc = "other"
  /\ IF wait # 0
       THEN \E r \in SysResults : calls' = Append(calls, WaitCall(source, r))
       ELSE calls' = calls
  /\ pc' = "resolve"
  /\ UNCHANGED << cmd, nargs, args, mountLocals, loopdev, ret, stores,
                  forkState >>
  /\ UNCHANGED peer

\* the log after one more lookup round: a run of failed rounds is kept as
\* one failed lookup, so that the unbounded loop has finitely many logs
LogLookup(log, c) ==
  IF c.res < 0 /\ Len(log) > 0 /\ log[Len(log)] = c THEN log
  ELSE Append(log, c)

\* inand_lookup with a failed lookup treated as in the mtd@ branch: return -1
inand_lookup_giveup ==
  /\ pc = "resolve"
  /\ strncmp0(source, S_inand, 6)
  /\ \E r \in LookupResults :
       /\ n' = r
       /\ calls' = LogLookup(calls, LookupCall("inand_name_to_number",
                                               Skip(source, 6), r))
       /\ IF r < 0
            THEN Return(-1) /\ UNCHANGED tmp
            ELSE tmp' = InandPath(r) /\ pc' = "mount" /\ UNCHANGED ret
  /\ UNCHANGED << cmd, nargs, args, system, source, target, flags, options,
                  wait, mount_result, fds, loopdev, bound, stores,
                  forkState >>
  /\ UNCHANGED peer

\* one round of the do / while (n < 0) lookup of "inand@<label>"
inand_lookup ==
  /\ pc = "resolve"
  /\ strncmp0(source, S_inand, 6)
  /\ \E r \in LookupResults :
       /\ n' = r
       /\ calls' = LogLookup(calls, LookupCall("inand_name_to_number",
                                               Skip(source, 6), r))
       /\ IF r < 0
            THEN UNCHANGED << pc, tmp >>
            ELSE tmp' = InandPath(r) /\ pc' = "mount"
  /\ UNCHANGED << cmd, nargs, args, system, source, target, flags, options,
                  wait, mount_result, fds, loopdev, bound, ret, stores,
                  forkState >>
  /\ UNCHANGED peer

\* strcpy(tmp, source)
raw_copy ==
  /\ pc = "resolve"
  /\ ~strncmp0(source, S_inand, 6)
  /\ tmp' = source
  /\ pc' = "mount"
  /\ UNCHANGED << cmd, nargs, args, system, source, target, flags, options,
                  wait, n, mount_result, fds, loopdev, bound, calls, ret,
                  stores, forkState >>
  /\ UNCHANGED peer

\* NeedFormat with the data mount point tested in place of the cache one
NeedFormat_data(res) ==
  /\ res < 0
  /\ strncmp0(system, S_ext4, 4)
  /\ strncmp0(target, DATA_MNT_POINT, 5)

\* NeedFormat without the test of the mount result
NeedFormat_always(res) ==
  /\ strncmp0(system, S_ext4, 4)
  /\ strncmp0(target, S_cache, 6)

\* the test that guards the format of the cache partition
NeedFormat(res) ==
  /\ res < 0
  /\ strncmp0(system, S_ext4, 4)
  /\ strncmp0(target, S_cache, 6)

\* the test that guards the ro.init.mountdatafail property
DataFailed(res) == res < 0 /\ strncmp0(target, DATA_MNT_POINT, 5)

\* the tail of the else branch from the data test on: the property and the
\* fall through to exit_success
data_check(mr, log) ==
  /\ IF DataFailed(mr)
       THEN /\ props' = property_set(props, "ro.init.mountdatafail", "true")
            /\ calls' = Append(log, PropCall("ro.init.mountdatafail", "true"))
       ELSE /\ props' = props
            /\ calls' = log
  /\ Return(0)

\* int mount_result = mount(tmp, ...), then the format test
other_mount ==
  /\ pc = "mount"
  /\ \E r \in SysResults :
       /\ mount_result' = r
       /\ IF NeedFormat(r)
            THEN /\ calls' = Append(calls, MountCall(tmp, r))
                 /\ pc' = "format"
                 /\ UNCHANGED << ret, props >>
            ELSE data_check(r, Append(calls, MountCall(tmp, r)))
  /\ UNCHANGED << cmd, nargs, args, system, source, target, flags, options,
                  wait, tmp, n, fds, loopdev, bound, action_queue, forkState >>
  /\ UNCHANGED peer

\* result = make_ext4fs(tmp, 0, target, ...): a failure is only logged
format_cache ==
  /\ pc = "format"
  /\ \E r \in SysResults : calls' = Append(calls, FormatCall(tmp, r))
  /\ pc' = "remount"
  /\ UNCHANGED << cmd, nargs, args, mountLocals, loopdev, ret, stores,
                  forkState >>
  /\ UNCHANGED peer

\* result = mount(tmp, ...) after the format: -2 when it fails
other_remount ==
  /\ pc = "remount"
  /\ \E r \in SysResults :
       IF r # 0
         THEN /\ calls' = Append(calls, MountCall(tmp, r))
              /\ Return(-2)
              /\ props' = props
         ELSE data_check(mount_result, Append(calls, MountCall(tmp, r)))
  /\ UNCHANGED << cmd, nargs, args, mountLocals, loopdev, action_queue,
                  forkState >>
  /\ UNCHANGED peer


(* ----------------------------- do_mount_all ---------------------------- *)

FstabPath == "/fstab"

\* the executor calls do_mount_all: the argument count test
do_mount_all ==
  /\ pc = "idle"
  /\ cmd' = "do_mount_all"
  /\ \E na \in 1 .. 3 :
       /\ nargs' = na
       /\ args' = [i \in 1 .. na - 1 |-> FstabPath]
       /\ IF na # 2 THEN Return(-1) ELSE pc' = "fork" /\ ret' = -1
  /\ system' = NONE /\ source' = NONE /\ target' = NONE
  /\ flags' = {} /\ options' = NULL /\ wait' = 0
  /\ tmp' = NONE /\ n' = 0 /\ mount_result' = 0
  /\ fds' = {} /\ bound' = -1
  /\ calls' = <<>>
  /\ UNCHANGED << loopdev, stores, forkState >>
  /\ UNCHANGED peer

\* pid = fork(): a child, or the failure return
fork ==
  /\ pc = "fork"
  /\ \/ /\ child' = "running"
        /\ pc' = "waitpid"
        /\ ret' = ret
     \/ /\ child' = child
        /\ Return(-1)
  /\ UNCHANGED << cmd, nargs, args, mountLocals, loopdev, calls, stores,
                  status >>
  /\ UNCHANGED peer

\* the child: exit(fs_mgr_mount_all(fstab)); the status keeps the low byte
child_exit ==
  /\ child = "running"
  /\ \E child_ret \in ChildRets :
       status' = [exited |-> TRUE, code |-> child_ret % 256]
  /\ child' = "zombie"
  /\ UNCHANGED << cmd, pc, nargs, args, mountLocals, loopdev, calls, ret,
                  stores >>
  /\ UNCHANGED peer

\* the child is killed by a signal before it exits (a crash)
child_crash ==
  /\ child = "running"
  /\ status' = [exited |-> FALSE, code |-> 0]
  /\ child' = "zombie"
  /\ UNCHANGED << cmd, pc, nargs, args, mountLocals, loopdev, calls, ret,
                  stores >>
  /\ UNCHANGED peer

\* waitpid without the WIFEXITED test: ret is the status byte in every case
waitpid_nosignalcheck ==
  /\ pc = "waitpid"
  /\ child = "zombie"
  /\ child' = "reaped"
  /\ ret' = status.code
  /\ pc' = "publish"
  /\ UNCHANGED << cmd, nargs, args, mountLocals, loopdev, calls, stores,
                  status >>
  /\ UNCHANGED peer

\* waitpid that does not block: it returns while the child still runs
waitpid_nohang ==
  /\ pc = "waitpid"
  /\ child \in {"running", "zombie"}
  /\ child' = IF child = "zombie" THEN "reaped" ELSE child
  /\ ret' = IF child = "zombie" /\ ~status.exited THEN -1
            ELSE IF child = "zombie" THEN status.code ELSE 0
  /\ pc' = "publish"
  /\ UNCHANGED << cmd, nargs, args, mountLocals, loopdev, calls, stores,
                  status >>
  /\ UNCHANGED peer

\* waitpid(pid, &status, 0), WIFEXITED / WEXITSTATUS
waitpid ==
  /\ pc = "waitpid"
  /\ child = "zombie"
  /\ child' = "reaped"
  /\ ret' = IF status.exited THEN status.code ELSE -1
  /\ pc' = "publish"
  /\ UNCHANGED << cmd, nargs, args, mountLocals, loopdev, calls, stores,
                  status >>
  /\ UNCHANGED peer

\* publish with "if (ret)" in place of "if (ret == 1)"
publish_truthy ==
  /\ pc = "publish"
  /\ IF ret # 0
       THEN /\ props' = property_set(
                          property_set(props, "ro.crypto.state", "encrypted"),
                          "vold.decrypt", "1")
            /\ calls' = calls \o << PropCall("ro.crypto.state", "encrypted"),
                                    PropCall("vold.decrypt", "1") >>
            /\ action_queue' = action_queue
       ELSE /\ props' = property_set(props, "ro.crypto.state", "unencrypted")
            /\ calls' = calls \o << PropCall("ro.crypto.state", "unencrypted"),
                                    TriggerCall("nonencrypted") >>
            /\ action_queue' =
                 action_for_each_trigger("nonencrypted", action_queue, 1)
  /\ Return(ret)
  /\ UNCHANGED << cmd, nargs, args, mountLocals, loopdev, forkState >>
  /\ UNCHANGED peer

\* the properties and the trigger that follow from ret, and return ret
publish ==
  /\ pc = "publish"
  /\ IF ret = 1
       THEN /\ props' = property_set(
                          property_set(props, "ro.crypto.state", "encrypted"),
                          "vold.decrypt", "1")
            /\ calls' = calls \o << PropCall("ro.crypto.state", "encrypted"),
                                    PropCall("vold.decrypt", "1") >>
            /\ action_queue' = action_queue
       ELSE IF ret = 0
       THEN /\ props' = property_set(props, "ro.crypto.state", "unencrypted")
            /\ calls' = calls \o << PropCall("ro.crypto.state", "unencrypted"),
                                    TriggerCall("nonencrypted") >>
            /\ action_queue' =
                 action_for_each_trigger("nonencrypted", action_queue, 1)
       ELSE UNCHANGED << props, calls, action_queue >>
  /\ Return(ret)
  /\ UNCHANGED << cmd, nargs, args, mountLocals, loopdev, forkState >>
  /\ UNCHANGED peer

(* -------------------------- do_confirm_formated ------------------------ *)

\* int flags = MS_NOATIME | MS_NODIRATIME | MS_NOSUID | MS_NODEV
ConfirmFlags == {"MS_NOATIME", "MS_NODIRATIME", "MS_NOSUID", "MS_NODEV"}

\* char options[] = "noauto_da_alloc"
ConfirmOptions == "noauto_da_alloc"

\* mount(args[2], args[3], "ext4", flags, options) and its result
ConfirmMountCall(res) ==
  [op |-> "mount", dev |-> args[2], target |-> args[3], fs |-> S_ext4,
   flags |-> ConfirmFlags, options |-> ConfirmOptions, res |-> res]

\* make_ext4fs(args[2], 0, args[3], ...) and its result
ConfirmFormatCall(res) ==
  [op |-> "make_ext4fs", dev |-> args[2], target |-> args[3], res |-> res]

\* umount(args[3]) and its result
UmountCall(res) == [op |-> "umount", target |-> args[3], res |-> res]

\* what is left alone after the entry of do_confirm_formated
confirmFrame == << cmd, nargs, args, mountLocals, loopdev, stores, forkState,
                  peer >>

\* the executor calls do_confirm_formated: the test of the filesystem type
do_confirm_formated ==
  /\ pc = "idle"
  /\ cmd' = "do_confirm_formated"
  /\ \E fs \in FsTypes, tgt \in Targets :
       /\ args' = << fs, RawSource, tgt >>
       /\ nargs' = 4
       /\ IF strncmp0(fs, S_ext4, 4)
            THEN pc' = "confirm_mount" /\ ret' = 0
            ELSE Return(0)
  /\ system' = NONE /\ source' = NONE /\ target' = NONE
  /\ flags' = {} /\ options' = NULL /\ wait' = 0
  /\ tmp' = NONE /\ n' = 0 /\ mount_result' = 0
  /\ fds' = {} /\ bound' = -1
  /\ calls' = <<>>
  /\ UNCHANGED << loopdev, stores, forkState, peer >>

\* int result = mount(args[2], args[3], "ext4", flags, options)
confirm_mount ==
  /\ pc = "confirm_mount"
  /\ \E r \in SysResults :
       /\ calls' = Append(calls, ConfirmMountCall(r))
       /\ pc' = IF r # 0 THEN "confirm_format" ELSE "confirm_umount"
  /\ UNCHANGED << ret, confirmFrame >>

\* confirm_format with the failure only logged, as in do_mount
confirm_format_logonly ==
  /\ pc = "confirm_format"
  /\ \E r \in SysResults :
       /\ calls' = Append(calls, ConfirmFormatCall(r))
       /\ pc' = "confirm_sync"
  /\ UNCHANGED << ret, confirmFrame >>

\* result = make_ext4fs(...); if (result != 0) return -1
confirm_format ==
  /\ pc = "confirm_format"
  /\ \E r \in SysResults :
       /\ calls' = Append(calls, ConfirmFormatCall(r))
       /\ IF r # 0 THEN Return(-1) ELSE pc' = "confirm_sync" /\ ret' = ret
  /\ UNCHANGED confirmFrame

\* fd = open(args[2], O_RDWR); if (fd > 0) { fsync(fd); close(fd); }
confirm_sync ==
  /\ pc = "confirm_sync"
  /\ \E r \in SysResults :
       calls' = Append(calls, [op |-> "open", dev |-> args[2],
                               mode |-> "O_RDWR", res |-> r])
  /\ pc' = "confirm_remount"
  /\ UNCHANGED << ret, confirmFrame >>

\* result = mount(...) after the format; if (result != 0) return -2
confirm_remount ==
  /\ pc = "confirm_remount"
  /\ \E r \in SysResults :
       /\ calls' = Append(calls, ConfirmMountCall(r))
       /\ IF r # 0 THEN Return(-2) ELSE pc' = "confirm_umount" /\ ret' = ret
  /\ UNCHANGED confirmFrame

\* if (result == 0) result = umount(args[3]); return 0
confirm_umount ==
  /\ pc = "confirm_umount"
  /\ \E r \in SysResults :
       calls' = Append(calls, UmountCall(r))
  /\ Return(0)
  /\ UNCHANGED confirmFrame

(* --------------------------- specification ----------------------------- *)

Next ==
  \/ do_mount
  \/ mtd_lookup
  \/ mtd_wait
  \/ mtd_mount
  \/ ubifs_mount
  \/ ubifs_remount
  \/ loop_open_file
  \/ loop_open_dev
  \/ loop_get_status
  \/ loop_race
  \/ loop_set_fd
  \/ loop_mount
  \/ other_wait
  \/ inand_lookup
  \/ raw_copy
  \/ other_mount
  \/ format_cache
  \/ other_remount
  \/ do_mount_all
  \/ fork
  \/ child_exit
  \/ child_crash
  \/ waitpid
  \/ publish
  \/ do_confirm_formated
  \/ confirm_mount
  \/ confirm_format
  \/ confirm_sync
  \/ confirm_remount
  \/ confirm_umount

Spec == Init /\ [][Next]_vars

\* two do_mount invocations on loop@ sources, their ioctls interleaved
NextRace ==
  \/ do_mount_loop
  \/ loop_open_file
  \/ loop_open_dev
  \/ loop_get_status
  \/ loop_set_fd
  \/ loop_mount
  \/ peer_do_mount
  \/ peer_open_dev
  \/ peer_get_status
  \/ peer_set_fd
  \/ peer_mount

RaceSpec == Init /\ [][NextRace]_vars

\* init runs on: a step of the command that can be taken is taken
FairSpec == Spec /\ WF_vars(Next)


(* ------------------------------ properties ----------------------------- *)

\* the calls of the running command to one external operation, in order
CallsOf(name) == SelectSeq(calls, LAMBDA c : c.op = name)

Mounts == CallsOf("mount")
Formats == CallsOf("make_ext4fs")
Waits == CallsOf("wait_for_file")
PropSets == CallsOf("property_set")

MountReturned == cmd = "do_mount" /\ pc = "done"
MountAllReturned == cmd = "do_mount_all" /\ pc = "done"

SomeMountOk == \E i \in 1 .. Len(Mounts) : Mounts[i].res = 0
SomeMountFailed == \E i \in 1 .. Len(Mounts) : Mounts[i].res < 0

IsAlias(src) ==
  \/ strncmp0(src, S_mtd, 4)
  \/ strncmp0(src, S_loop, 5)
  \/ strncmp0(src, S_inand, 6)

\* a mount call without its outcome: device, target, filesystem, flags, options
MountArgs(c) == << c.dev, c.target, c.fs, c.flags, c.options >>

\* C1: do_mount returns 0 only if one of its mount attempts succeeded, and
\* returns a negative value when it attempted a mount and none succeeded.
C1_MountFailureReturned ==
  MountReturned =>
    /\ (ret = 0 => SomeMountOk)
    /\ (Len(Mounts) > 0 /\ ~SomeMountOk => ret < 0)

\* C2: make_ext4fs is called by do_mount only after a mount attempt failed
\* with the filesystem type exactly "ext4" and the target exactly "/cache";
\* for every other filesystem / target combination it is never called.
C2_FormatOnlyExt4Cache ==
  cmd = "do_mount" =>
    (Len(Formats) > 0 =>
       (SomeMountFailed /\ system = S_ext4 /\ target = S_cache))

\* C3: when make_ext4fs fails inside do_mount, do_mount returns a failure
\* value whatever the later mount attempt does.
C3_FormatFailureIsHardError ==
  MountReturned =>
    ((\E i \in 1 .. Len(Formats) : Formats[i].res # 0) => ret < 0)

\* the calls of the invocation other than the wait for the device file
OpsAfterWait ==
  SelectSeq([i \in 1 .. Len(calls) |-> calls[i].op],
            LAMBDA o : o # "wait_for_file")

\* the case of C4: a raw device, ext4 on /cache, the first mount failed, and
\* no make_ext4fs and no later mount of the invocation failed
C4_Case ==
  /\ MountReturned
  /\ ~IsAlias(source)
  /\ system = S_ext4
  /\ target = S_cache
  /\ Len(Mounts) >= 1
  /\ Mounts[1].res < 0
  /\ \A i \in 1 .. Len(Formats) : Formats[i].res = 0
  /\ \A i \in 2 .. Len(Mounts) : Mounts[i].res = 0

\* C4: raw device, ext4, /cache, first mount fails, make_ext4fs succeeds,
\* second mount succeeds: do_mount returns 0 after exactly mount,
\* make_ext4fs, mount in this order, the format on the resolved device and
\* both mounts with the same device, target, filesystem, flags and options.
C4_FormatThenRetrySucceeds ==
  C4_Case =>
    /\ ret = 0
    /\ OpsAfterWait = << "mount", "make_ext4fs", "mount" >>
    /\ Formats[1].dev = source
    /\ Formats[1].target = target
    /\ MountArgs(Mounts[1]) = << source, target, system, flags, options >>
    /\ MountArgs(Mounts[2]) = MountArgs(Mounts[1])

C4_Witness ==
  /\ C4_Case
  /\ Len(Mounts) = 2
  /\ Len(Formats) = 1
  /\ flags = {"MS_NOATIME"}
  /\ options = "discard"
  /\ ret = 0

DataFailSet ==
  \E i \in 1 .. Len(PropSets) :
    PropSets[i].key = "ro.init.mountdatafail" /\ PropSets[i].val = "true"

\* C5: do_mount sets ro.init.mountdatafail to "true" exactly when one of its
\* mount attempts failed and the target is "/data", for every filesystem
\* type and every source form.
C5_DataFailFlag ==
  MountReturned =>
    (DataFailSet <=> (SomeMountFailed /\ target = DATA_MNT_POINT))

\* C6: when wait_for_file reports a failure (the device file did not appear
\* in time), do_mount returns a failure value and attempts no mount.
C6_WaitTimeoutFails ==
  MountReturned =>
    ((\E i \in 1 .. Len(Waits) : Waits[i].res < 0) =>
       ret < 0 /\ Len(Mounts) = 0)

\* the device path that the source resolves to, n being the looked up index
\* or the loop slot
ResolvedPath ==
  IF strncmp0(source, S_mtd, 4) THEN MtdPath(n)
  ELSE IF strncmp0(source, S_loop, 5) THEN LoopPath(n)
  ELSE IF strncmp0(source, S_inand, 6) THEN InandPath(n)
  ELSE source

\* C7: for every filesystem type, every mount call of do_mount is on the
\* resolved device path: mtdblock<N>, loop<N>, cardblkinand<N>, or the source
\* itself when it has no alias prefix.
C7_DevicePath ==
  cmd = "do_mount" =>
    \A i \in 1 .. Len(Mounts) : n >= 0 /\ Mounts[i].dev = ResolvedPath

\* C8: for filesystem type ubifs and every source form, a failed first mount
\* is followed by exactly one more mount with the same arguments; do_mount
\* returns 0 if either succeeds, a failure value if both fail, and makes no
\* third attempt.
C8_UbifsRetryOnce ==
  MountReturned /\ system = S_ubifs /\ Len(Mounts) > 0 =>
    /\ Len(Mounts) = (IF Mounts[1].res < 0 THEN 2 ELSE 1)
    /\ \A i \in 1 .. Len(Mounts) : MountArgs(Mounts[i]) = MountArgs(Mounts[1])
    /\ (SomeMountOk => ret = 0)
    /\ (~SomeMountOk => ret < 0)

\* the child was waited for and had exited with this code
ChildExited(code) ==
  child = "reaped" /\ status.exited /\ status.code = code

NoProps == \A k \in DOMAIN props : props[k] = NULL

\* C9: after do_mount_all waited for a child that exited: code 1 sets
\* ro.crypto.state=encrypted and vold.decrypt=1 and enqueues nothing; code 0
\* sets ro.crypto.state=unencrypted alone and enqueues the actions of the
\* "nonencrypted" trigger; every other code sets and enqueues nothing.
C9_ExitStatusSignals ==
  MountAllReturned /\ child = "reaped" /\ status.exited =>
    IF status.code = 1
      THEN /\ calls = << PropCall("ro.crypto.state", "encrypted"),
                         PropCall("vold.decrypt", "1") >>
           /\ props["ro.crypto.state"] = "encrypted"
           /\ props["vold.decrypt"] = "1"
           /\ props["ro.init.mountdatafail"] = NULL
           /\ action_queue = <<>>
    ELSE IF status.code = 0
      THEN /\ calls = << PropCall("ro.crypto.state", "unencrypted"),
                         TriggerCall("nonencrypted") >>
           /\ props["ro.crypto.state"] = "unencrypted"
           /\ props["vold.decrypt"] = NULL
           /\ props["ro.init.mountdatafail"] = NULL
           /\ action_queue = << "a1", "a3" >>
    ELSE calls = <<>> /\ NoProps /\ action_queue = <<>>

C9_Witness ==
  /\ MountAllReturned
  /\ ChildExited(0)
  /\ action_queue = << "a1", "a3" >>
  /\ props["ro.crypto.state"] = "unencrypted"

\* C10: do_mount_all returns 1 when the child exited with 1, 0 when it
\* exited with 0, and -1 in every other case (argument count, fork failure,
\* abnormal termination, any other exit status).
C10_ReturnValue ==
  MountAllReturned =>
    ret = (IF ChildExited(1) THEN 1 ELSE IF ChildExited(0) THEN 0 ELSE -1)


(* ------------------------ properties: loop devices --------------------- *)

\* C11: when do_mount returns, on every path, it holds no descriptor that it
\* opened: the backing file "fd" and the slot "loop" are both closed.
C11_AllFdsClosed == MountReturned => fds = {}

IsIoctl(c, req) == c.op = "ioctl" /\ c.req = req

\* positions in the log of the ioctls of a request on one slot
IoctlsAt(req, slot) ==
  {i \in 1 .. Len(calls) : IsIoctl(calls[i], req) /\ calls[i].slot = slot}

\* positions in the log of the LOOP_SET_FD calls that succeeded
Bindings ==
  {i \in 1 .. Len(calls) : IsIoctl(calls[i], "LOOP_SET_FD") /\ calls[i].res >= 0}

\* slot s was scanned before position i and reported this LOOP_GET_STATUS result
Reported(s, res, i) ==
  \E j \in IoctlsAt("LOOP_GET_STATUS", s) : j < i /\ calls[j].res = res

\* C12: the slot that do_mount binds is the lowest-indexed slot that reported
\* "not configured" in the scan: every lower slot was scanned and reported
\* configured, and no LOOP_SET_FD or LOOP_CLR_FD was issued on it.
C12_LowestFreeSlot ==
  cmd = "do_mount" =>
    \A i \in Bindings :
      \A s \in 0 .. calls[i].slot - 1 :
        /\ Reported(s, 0, i)
        /\ ~Reported(s, -1, i)
        /\ IoctlsAt("LOOP_SET_FD", s) = {}
        /\ IoctlsAt("LOOP_CLR_FD", s) = {}

\* C12 as amended: the slot that do_mount binds reported "not configured" and
\* is the lowest-indexed slot that accepted LOOP_SET_FD; every lower slot
\* was scanned exactly once and either reported configured, with no
\* LOOP_SET_FD or LOOP_CLR_FD issued on it, or reported "not configured" and
\* refused the LOOP_SET_FD, with no LOOP_CLR_FD issued on it; do_mount binds
\* at most one slot.
C12_LowestAcceptingSlot ==
  cmd = "do_mount" =>
    /\ Cardinality(Bindings) <= 1
    /\ \A i \in Bindings :
         /\ i > 1
         /\ calls[i - 1] = IoctlCall("LOOP_GET_STATUS", calls[i].slot, -1)
         /\ \A s \in 0 .. calls[i].slot - 1 :
              /\ Cardinality(IoctlsAt("LOOP_GET_STATUS", s)) = 1
              /\ IoctlsAt("LOOP_CLR_FD", s) = {}
              /\ \/ /\ Reported(s, 0, i)
                    /\ IoctlsAt("LOOP_SET_FD", s) = {}
                 \/ /\ Reported(s, -1, i)
                    /\ \E j \in IoctlsAt("LOOP_SET_FD", s) : j < i
                    /\ \A j \in IoctlsAt("LOOP_SET_FD", s) : calls[j].res < 0

\* slot 0 was configured at the scan, slot 1 was free and is the one bound
C12_Witness ==
  /\ MountReturned
  /\ ret = 0
  /\ bound = 1
  /\ Reported(0, 0, Len(calls))
  /\ \E i \in Bindings : calls[i].slot = 1

\* the loop device path of a slot, written out
LoopDevice(k) ==
  << "/", "d", "e", "v", "/", "b", "l", "o", "c", "k", "/",
     "l", "o", "o", "p" >> \o Dec(k)

\* C13: when do_mount returns after it bound slot k: it made one mount, on
\* /dev/block/loop<k>; if that mount failed the binding was cleared after it
\* (slot k is not configured), the slot is closed and the return is an
\* error; if it succeeded the slot is closed, the binding is still in place
\* and the return is 0.
C13_LoopBindingAfterMount ==
  MountReturned =>
    \A i \in Bindings :
      LET k == calls[i].slot IN
      /\ Len(Mounts) = 1
      /\ Mounts[1].dev = LoopDevice(k)
      /\ "loop" \notin fds
      /\ IF Mounts[1].res < 0
           THEN /\ ret < 0
                /\ ~loopdev[k]
                /\ bound = -1
                /\ calls[Len(calls)] = IoctlCall("LOOP_CLR_FD", k, 0)
                /\ calls[Len(calls) - 1] = Mounts[1]
           ELSE /\ ret = 0
                /\ loopdev[k]
                /\ bound = k
                /\ IoctlsAt("LOOP_CLR_FD", k) = {}

C13_Witness ==
  /\ MountReturned
  /\ Bindings # {}
  /\ Mounts[1].res < 0
  /\ ret = -1
  /\ \A k \in DOMAIN loopdev : ~loopdev[k]

(* --------------------- properties: mtd@ and the flags ------------------ *)

\* the trailing tokens args[4 .. nargs - 1] of the running command
Trailing == SubSeq(args, 4, Len(args))
TrailingTokens == {Trailing[i] : i \in 1 .. Len(Trailing)}

\* the table bits of one token: none for a token that is no keyword
KeywordFlag(tok) ==
  UNION {mount_flags[i].flag :
           i \in {j \in 1 .. Len(mount_flags) : mount_flags[j].name = tok}}

Recognized(tok) == \E i \in 1 .. Len(mount_flags) : mount_flags[i].name = tok

\* the mtd block device path of a partition index, written out
MtdDevice(k) ==
  << "/", "d", "e", "v", "/", "b", "l", "o", "c", "k", "/",
     "m", "t", "d", "b", "l", "o", "c", "k" >> \o Dec(k)

MtdLookups == CallsOf("mtd_name_to_number")

\* C14: for a source mtd@<label>, when do_mount returns it looked the label
\* up once; a failed lookup gives a failure return and no mount; a lookup
\* that gave N gives one mount, on /dev/block/mtdblock<N>, of the request's
\* target and filesystem with the flags of its keywords (MS_RDONLY exactly
\* for "ro"), and the return is 0 when that mount succeeds.
C14_MtdLookupAndMount ==
  MountReturned /\ strncmp0(source, S_mtd, 4) =>
    /\ Len(MtdLookups) = 1
    /\ MtdLookups[1].label = Skip(args[2], 4)
    /\ IF MtdLookups[1].res < 0
         THEN ret < 0 /\ Len(Mounts) = 0
         ELSE /\ Len(Mounts) = 1
              /\ Mounts[1].dev = MtdDevice(MtdLookups[1].res)
              /\ Mounts[1].target = args[3]
              /\ Mounts[1].fs = args[1]
              /\ ("MS_RDONLY" \in Mounts[1].flags <=> "ro" \in TrailingTokens)
              /\ ("MS_NOATIME" \in Mounts[1].flags <=> "noatime" \in TrailingTokens)
              /\ Mounts[1].flags \subseteq {"MS_RDONLY", "MS_NOATIME"}
              /\ (Mounts[1].res = 0 => ret = 0)

\* mount ext4 mtd@s /mnt ro with the label at index 1, mounted read-only
C14_Witness ==
  /\ MountReturned
  /\ args = << S_ext4, S_mtd \o <<"s">>, <<"/", "m", "n", "t">>, "ro" >>
  /\ MtdLookups[1].res = 1
  /\ Mounts[1].flags = {"MS_RDONLY"}
  /\ Mounts[1].res = 0
  /\ ret = 0

\* C16: after the flag loop, flags is the union of the table bits of the
\* keywords among args[4..], whatever their order; wait is set exactly when
\* "wait" is among them; options is the last token when that token is
\* neither a keyword nor "wait", and is not set otherwise; do_mount does not
\* return before its first external call.
C16_FlagParsing ==
  cmd = "do_mount" =>
    /\ flags = UNION {KeywordFlag(t) : t \in TrailingTokens}
    /\ wait = (IF "wait" \in TrailingTokens THEN 1 ELSE 0)
    /\ options = (IF /\ Len(Trailing) > 0
                     /\ ~Recognized(Trailing[Len(Trailing)])
                     /\ Trailing[Len(Trailing)] # "wait"
                    THEN Trailing[Len(Trailing)] ELSE NULL)
    /\ (pc = "done" => calls # <<>>)

\* an unknown token that is not the last one is dropped
C16_Witness ==
  /\ cmd = "do_mount"
  /\ Trailing = << "discard", "ro" >>
  /\ flags = {"MS_RDONLY"}
  /\ options = NULL
  /\ wait = 0

(* ------------------------- properties: inand@ -------------------------- *)

InandLookups == CallsOf("inand_name_to_number")

\* the inand block device path of a partition index, written out
InandDevice(k) ==
  << "/", "d", "e", "v", "/", "b", "l", "o", "c", "k", "/",
     "c", "a", "r", "d", "b", "l", "k", "i", "n", "a", "n", "d" >> \o Dec(k)

\* every lookup of the inand label made so far has failed
LookupKeepsFailing ==
  /\ cmd = "do_mount"
  /\ strncmp0(source, S_inand, 6)
  /\ Len(InandLookups) > 0
  /\ \A i \in 1 .. Len(InandLookups) : InandLookups[i].res < 0

\* the lookup of the inand label has given the index k
LookupGave(k) ==
  /\ cmd = "do_mount"
  /\ Len(InandLookups) > 0
  /\ InandLookups[Len(InandLookups)].res = k

MountedOn(dev) == \E i \in 1 .. Len(Mounts) : Mounts[i].dev = dev

\* C15: for a source inand@<label>, while the lookups of the label have
\* all failed do_mount has called no mount, has not returned and is about to
\* look the label up again; once a lookup gives N >= 0, mount is eventually
\* called on /dev/block/cardblkinand<N>.
C15_InandLookupLoop ==
  /\ [](LookupKeepsFailing =>
          Len(Mounts) = 0 /\ pc = "resolve" /\ ENABLED inand_lookup)
  /\ \A k \in 0 .. MaxIdx : LookupGave(k) ~> MountedOn(InandDevice(k))

\* the label was looked up without success, then found at index 1 and mounted
C15_Witness ==
  /\ MountReturned
  /\ Len(InandLookups) = 2
  /\ InandLookups[1].res < 0
  /\ InandLookups[2].res = 1
  /\ MountedOn(InandDevice(1))

(* --------------------- properties: parent and child -------------------- *)

Triggers == CallsOf("action_for_each_trigger")

\* C17: in do_mount_all every step that writes the property store, queues an
\* action or makes any logged call is the parent's publishing step, taken
\* when the child has terminated and been waited for; no step of the child
\* changes the property store or the action queue.
C17_PublishAfterChild ==
  [][ cmd = "do_mount_all"
      /\ (props' # props \/ action_queue' # action_queue \/ calls' # calls)
      => pc = "publish" /\ pc' = "done" /\ child = "reaped" ]_vars

\* the child exited 0, was waited for, and the parent then published
C17_Witness ==
  /\ MountAllReturned
  /\ child = "reaped"
  /\ ChildExited(0)
  /\ Len(PropSets) = 1
  /\ Len(Triggers) = 1

(* ------------------- properties: waits and retries --------------------- *)

IsMount(i) == calls[i].op = "mount"
IsFormat(i) == calls[i].op = "make_ext4fs"
MountIdx == {i \in 1 .. Len(calls) : IsMount(i)}
FirstMount == CHOOSE i \in MountIdx : \A j \in MountIdx : i <= j

\* C18: when the wait directive is given, the device path of the first
\* mount call was waited for before that call, for every source form and
\* every filesystem type.
C18_WaitsForMountedDevice ==
  cmd = "do_mount" /\ wait = 1 /\ MountIdx # {} =>
    \E j \in 1 .. FirstMount - 1 :
      calls[j].op = "wait_for_file" /\ calls[j].dev = calls[FirstMount].dev

\* at most two mount calls and one make_ext4fs call; a failed mount after the
\* format ends the invocation with a non-zero return
AttemptBounds ==
  /\ Len(Mounts) <= 2
  /\ Len(Formats) <= 1
  /\ \A i \in MountIdx :
       (\E j \in 1 .. i - 1 : IsFormat(j)) /\ calls[i].res < 0 =>
         pc = "done" /\ ret # 0 /\ i = Len(calls)

\* C19: a second mount call is made only when the filesystem type is ubifs
\* or when the request is ext4 on /cache and the device was formatted; there
\* are at most two mount calls and one make_ext4fs call, and a failed mount
\* after the format returns non-zero with nothing attempted after it.
C19_SecondMountOnlyOnRetryPaths ==
  cmd = "do_mount" =>
    /\ AttemptBounds
    /\ (Len(Mounts) = 2 =>
          \/ system = S_ubifs
          \/ system = S_ext4 /\ target = S_cache /\ Len(Formats) = 1)

\* C20: every make_ext4fs call of do_mount comes after a failed mount call on
\* the same device path, after the first mount call, with no successful
\* mount call before it.
C20_FormatOnlyAfterFailedMount ==
  cmd = "do_mount" =>
    \A i \in 1 .. Len(calls) : IsFormat(i) =>
      /\ FirstMount < i
      /\ \E j \in 1 .. i - 1 :
           IsMount(j) /\ calls[j].res < 0 /\ calls[j].dev = calls[i].dev
      /\ \A j \in 1 .. i - 1 : IsMount(j) => calls[j].res < 0
      /\ \A j \in MountIdx : calls[j].dev = calls[i].dev

\* the first mount failed, the device was formatted and the retry succeeded
C20_Witness ==
  /\ MountReturned
  /\ Len(Formats) = 1
  /\ Len(Mounts) = 2
  /\ Mounts[1].res < 0
  /\ Mounts[2].res = 0
  /\ ret = 0

(* ------------------- properties: supervision errors -------------------- *)

\* do_mount_all returned after one of: a wrong argument count, a failed fork,
\* a child killed by a signal
SupervisionFailed ==
  /\ MountAllReturned
  /\ \/ nargs # 2
     \/ child = "none"
     \/ child = "reaped" /\ ~status.exited

\* C21: when do_mount_all has a wrong argument count, or fork fails, or the
\* child is killed by a signal, it returns -1 with no property set and no
\* action queued; a failed fork goes straight to the return, and the wait is
\* only ever reached with a child.
C21_SupervisionErrors ==
  /\ [](SupervisionFailed =>
          /\ ret = -1
          /\ NoProps /\ action_queue = <<>>
          /\ Len(PropSets) = 0 /\ Len(Triggers) = 0)
  /\ [](cmd = "do_mount_all" /\ pc \in {"waitpid", "publish"} =>
          child # "none")
  /\ [][pc = "fork" /\ child' = "none" => pc' = "done" /\ ret' = -1]_vars

\* the child was killed by a signal and do_mount_all returned -1
C21_Witness ==
  /\ MountAllReturned
  /\ nargs = 2
  /\ child = "reaped"
  /\ ~status.exited
  /\ ret = -1
  /\ NoProps

(* ------------------- properties: two loop scanners --------------------- *)

Slots == 0 .. NumLoop - 1

\* the log holds this ioctl on this slot with this result
Did(log, req, s, res) ==
  \E i \in 1 .. Len(log) :
    IsIoctl(log[i], req) /\ log[i].slot = s /\ log[i].res = res

\* the invocation with this log saw the slot 'not configured' and then tried
\* to bind it
SawFreeAndTried(log, s) ==
  /\ Did(log, "LOOP_GET_STATUS", s, -1)
  /\ Did(log, "LOOP_SET_FD", s, 0) \/ Did(log, "LOOP_SET_FD", s, -1)

\* both invocations saw the slot 'not configured' before either tried to
\* bind it, and both have tried since
BothSawFree(s) ==
  /\ s \in peer.raced
  /\ SawFreeAndTried(calls, s)
  /\ SawFreeAndTried(peer.calls, s)

NeverSameSlot == bound >= 0 /\ peer.bound >= 0 => bound # peer.bound

\* C22 as claimed: two concurrent loop@ invocations are never bound to the
\* same slot, and when both saw a slot 'not configured' before either tried
\* to bind it, exactly one of the two LOOP_SET_FD on it succeeded.
C22_ExactlyOneSetFdSucceeds ==
  /\ NeverSameSlot
  /\ \A s \in Slots :
       BothSawFree(s) =>
         Did(calls, "LOOP_SET_FD", s, 0) # Did(peer.calls, "LOOP_SET_FD", s, 0)

\* C22 amended: the two invocations are never bound to the same slot at the
\* same time; when both saw a slot 'not configured' at least one
\* LOOP_SET_FD on it succeeded, and both succeeded only if one binding was
\* cleared again; an invocation whose LOOP_SET_FD fails closes the slot and
\* goes on with the next index, and one whose LOOP_SET_FD succeeds holds it.
C22_NeverBoundToSameSlot ==
  /\ []NeverSameSlot
  /\ [](\A s \in Slots :
          SawFreeAndTried(calls, s) /\ SawFreeAndTried(peer.calls, s) =>
            /\ Did(calls, "LOOP_SET_FD", s, 0)
                 \/ Did(peer.calls, "LOOP_SET_FD", s, 0)
            /\ Did(calls, "LOOP_SET_FD", s, 0)
                 /\ Did(peer.calls, "LOOP_SET_FD", s, 0)
               => Did(calls, "LOOP_CLR_FD", s, 0)
                    \/ Did(peer.calls, "LOOP_CLR_FD", s, 0))
  /\ [][pc = "loop_set_fd" /\ pc' # pc =>
          IF loopdev[n]
            THEN "loop" \notin fds' /\ n' = n + 1 /\ pc' = "loop_open_dev"
                 /\ bound' = bound
            ELSE bound' = n /\ loopdev'[n]]_vars
  /\ [][peer.pc = "loop_set_fd" /\ peer'.pc # peer.pc =>
          IF loopdev[peer.n]
            THEN ~peer'.loop /\ peer'.n = peer.n + 1
                 /\ peer'.pc = "loop_open_dev" /\ peer'.bound = peer.bound
            ELSE peer'.bound = peer.n /\ loopdev'[peer.n]]_vars

\* both saw slot 0 'not configured'; the second invocation bound it and the
\* first lost the LOOP_SET_FD and bound slot 1
C22_Witness ==
  /\ Did(calls, "LOOP_GET_STATUS", 0, -1)
  /\ Did(peer.calls, "LOOP_GET_STATUS", 0, -1)
  /\ BothSawFree(0)
  /\ Did(calls, "LOOP_SET_FD", 0, -1)
  /\ peer.bound = 0
  /\ bound = 1

(* ----------------- properties: the end of the loop scan --------------- *)

\* the slots the invocation asked the status of, in the order of the scan
Scanned ==
  LET q == SelectSeq(calls, LAMBDA c : IsIoctl(c, "LOOP_GET_STATUS"))
  IN  [i \in 1 .. Len(q) |-> q[i].slot]

InLoopBranch == cmd = "do_mount" /\ Len(calls) > 0 /\ calls[1].op = "open"

\* every existing slot reported 'configured' to the scan
AllConfigured == \A s \in Slots : Did(calls, "LOOP_GET_STATUS", s, 0)

\* C23: with NumLoop loop nodes a do_mount that enters the loop@ branch
\* returns; the scan asks the status of strictly increasing slot indexes;
\* when every slot reported 'configured' the return is -1, right after the
\* failed open of /dev/block/loop<NumLoop>, with nothing bound, no
\* LOOP_SET_FD tried and no mount called.
C23_LoopScanTerminates ==
  /\ (cmd = "do_mount" /\ pc = "loop") ~> (pc = "done")
  /\ [](cmd = "do_mount" =>
          \A i, j \in 1 .. Len(Scanned) : i < j => Scanned[i] < Scanned[j])
  /\ [][cmd = "do_mount" /\ pc \in {"loop_open_dev", "loop_get_status",
                                    "loop_set_fd", "loop_mount"}
        => n' >= n]_vars
  /\ [](MountReturned /\ InLoopBranch /\ AllConfigured =>
          /\ ret = -1
          /\ calls[Len(calls)].op = "open"
          /\ calls[Len(calls)].dev = LoopDevice(NumLoop)
          /\ calls[Len(calls)].res = -1
          /\ bound = -1
          /\ Len(Mounts) = 0
          /\ \A s \in Slots : ~Did(calls, "LOOP_SET_FD", s, 0)
                              /\ ~Did(calls, "LOOP_SET_FD", s, -1))

\* every slot was configured and the scan ended on the missing node
C23_Witness ==
  /\ MountReturned
  /\ InLoopBranch
  /\ AllConfigured
  /\ Len(Scanned) = NumLoop
  /\ ret = -1
  /\ calls[Len(calls)].dev = LoopDevice(NumLoop)

(* ------------------ properties: do_confirm_formated -------------------- *)

Umounts == CallsOf("umount")

ConfirmReturned == cmd = "do_confirm_formated" /\ pc = "done"

\* the target is mounted: the last successful mount or umount of the log is
\* a mount
LeftMounted ==
  \E i \in 1 .. Len(calls) :
    /\ calls[i].op = "mount" /\ calls[i].res = 0
    /\ \A j \in i + 1 .. Len(calls) :
         ~(calls[j].op = "umount" /\ calls[j].res = 0)

\* C24: in do_confirm_formated on an ext4 filesystem type, make_ext4fs comes
\* directly after a failed first mount; a failed make_ext4fs returns -1 with
\* no second mount; a failed mount after the format returns -2; when a
\* mount succeeded there is exactly one umount, of the target, as the last
\* call before the return of 0, and after a successful umount the target is
\* not mounted.
C24_ConfirmFormated ==
  cmd = "do_confirm_formated" /\ strncmp0(args[1], S_ext4, 4) =>
    /\ \A i \in 1 .. Len(calls) : IsFormat(i) =>
         i = 2 /\ IsMount(1) /\ calls[1].res # 0 /\ calls[1].dev = calls[i].dev
    /\ \A i \in 1 .. Len(calls) : calls[i].op = "umount" => SomeMountOk
    /\ pc = "done" =>
         /\ Len(Formats) = 1 /\ Formats[1].res # 0 =>
              ret = -1 /\ Len(Mounts) = 1
         /\ Len(Mounts) = 2 /\ Mounts[2].res # 0 => ret = -2
         /\ Len(Mounts) <= 2
         /\ SomeMountOk =>
              /\ ret = 0
              /\ Len(Umounts) = 1
              /\ calls[Len(calls)] = Umounts[1]
              /\ Umounts[1].target = args[3]
              /\ (Umounts[1].res = 0 => ~LeftMounted)
         /\ ~SomeMountOk => ret < 0 /\ Len(Umounts) = 0

\* first boot: the mount failed, the format and the second mount succeeded,
\* and the target was unmounted again
C24_Witness ==
  /\ ConfirmReturned
  /\ Len(Formats) = 1
  /\ Formats[1].res = 0
  /\ Len(Mounts) = 2
  /\ Mounts[2].res = 0
  /\ Len(Umounts) = 1
  /\ Umounts[1].res = 0
  /\ ~LeftMounted
  /\ ret = 0

=============================================================================
